---- MODULE Spec2Model ----
(***************************************************************************)
(* zod-extend: createExtendZod(extensions) returns extendZod(z), which     *)
(* builds Object.create(Object.getPrototypeOf(z)), Object.assign's z onto  *)
(* it, assigns every entry of `extensions` onto it and freezes it.         *)
(*                                                                         *)
(* Objects are modelled with ECMAScript's ordinary-object semantics:       *)
(* [[Prototype]], [[Extensible]], own properties in creation order with    *)
(* their attributes, and [[Get]] / [[Set]] / [[Delete]] walking the        *)
(* prototype chain.  The module is an ES module, so every assignment and   *)
(* delete is strict: a failed [[Set]] or [[Delete]] throws a TypeError.    *)
(***************************************************************************)
EXTENDS Integers, Sequences, FiniteSets, TLC

\* ---------------------------------------------------------------- bounds
MaxFns == 1        \* apply functions created by createExtendZod
MaxCalls == 2      \* instances returned by apply functions
MaxMapOps == 1     \* caller mutations of the extension map after Init

\* ------------------------------------------------------------- universe
\* Property names.  "string" is a base-only member, "custom" may collide,
\* "__proto__" is the accessor every object inherits from Object.prototype.
Keys == {"string", "custom", "__proto__"}
BaseKeyOrder == <<"string", "custom">>
ExtKeys == {"custom", "__proto__"}
\* Callables (function objects): base members hold fnA, extensions fnB/fnC.
BaseFn == "fnA"
ExtFns == {"fnB", "fnC"}
Fns == {BaseFn} \cup ExtFns
\* The key imported from 'universal-symbols'.
OBJECT_EXTEND_FUNCTION_ENTRIES == "OBJECT_EXTEND_FUNCTION_ENTRIES"
\* The reference to the caller's extension map object (not a copy of it).
ExtensionsRef == "ref:extensions"
\* The two builds of the module that the repository holds.
IndexTs == "src/index.ts"
Part000 == "unnamed/part_000"
Builds == {IndexTs, Part000}

\* ------------------------------------------------ built-in/static objects
\* [[Prototype]] of the objects that are never allocated by the program:
\* Object.prototype, Function.prototype and the function objects.
StaticProto(o) ==
  CASE o = "ObjectPrototype" -> "null"
    [] o = "FunctionPrototype" -> "ObjectPrototype"
    [] OTHER -> "FunctionPrototype"

\* The own property `k` of a static object, for the names of Keys: the
\* __proto__ accessor of Object.prototype, or none.
StaticOwn(o, k) ==
  IF o = "ObjectPrototype" /\ k = "__proto__" THEN "proto_accessor" ELSE "none"

RECURSIVE Inherited(_, _)
\* The property k found on the prototype chain starting at p.
Inherited(p, k) ==
  IF p = "null" THEN "none"
  ELSE IF StaticOwn(p, k) # "none" THEN StaticOwn(p, k)
  ELSE Inherited(StaticProto(p), k)

\* ----------------------------------------------------- ordinary objects
\* A data property created by assignment (CreateDataProperty).
DataDesc(v) ==
  [value |-> v, enumerable |-> TRUE, writable |-> TRUE, configurable |-> TRUE]

EmptyDesc == [k \in {} |-> DataDesc("undefined")]

\* Object.create(p): a new, empty, extensible object with prototype p.
ObjectCreate(p) ==
  [proto |-> p, keys |-> <<>>, desc |-> EmptyDesc, extensible |-> TRUE]

HasOwn(o, k) == k \in DOMAIN o.desc

\* o[k] read: own value, else what the chain gives.
Get(o, k) ==
  IF HasOwn(o, k) THEN o.desc[k].value
  ELSE IF Inherited(o.proto, k) = "proto_accessor" THEN o.proto
  ELSE "undefined"

\* k in o
HasProperty(o, k) == HasOwn(o, k) \/ Inherited(o.proto, k) # "none"

DefineOwn(o, k, v) ==
  [o EXCEPT !.keys = Append(o.keys, k),
            !.desc = [x \in (DOMAIN o.desc) \cup {k} |->
                        IF x = k THEN DataDesc(v) ELSE o.desc[x]]]

\* o[k] = v (OrdinarySet).  ok = FALSE is the TypeError of strict code.
OrdinarySet(o, k, v) ==
  IF HasOwn(o, k)
  THEN IF o.desc[k].writable
       THEN [obj |-> [o EXCEPT !.desc[k].value = v], ok |-> TRUE]
       ELSE [obj |-> o, ok |-> FALSE]
  ELSE IF Inherited(o.proto, k) = "proto_accessor"
  THEN \* set Object.prototype.__proto__: only objects and null are taken;
       \* OrdinarySetPrototypeOf refuses a change on a non-extensible object.
       IF v \notin Fns THEN [obj |-> o, ok |-> TRUE]
       ELSE IF v = o.proto THEN [obj |-> o, ok |-> TRUE]
       ELSE IF ~o.extensible THEN [obj |-> o, ok |-> FALSE]
       ELSE [obj |-> [o EXCEPT !.proto = v], ok |-> TRUE]
  ELSE IF o.extensible
  THEN [obj |-> DefineOwn(o, k, v), ok |-> TRUE]
  ELSE [obj |-> o, ok |-> FALSE]

RECURSIVE RemoveKey(_, _)
RemoveKey(s, k) ==
  IF s = <<>> THEN <<>>
  ELSE IF Head(s) = k THEN Tail(s)
  ELSE <<Head(s)>> \o RemoveKey(Tail(s), k)

\* delete o[k] (OrdinaryDelete).  ok = FALSE is the TypeError of strict code.
OrdinaryDelete(o, k) ==
  IF ~HasOwn(o, k) THEN [obj |-> o, ok |-> TRUE]
  ELSE IF o.desc[k].configurable
  THEN [obj |-> [o EXCEPT !.keys = RemoveKey(o.keys, k),
                          !.desc = [x \in (DOMAIN o.desc) \ {k} |-> o.desc[x]]],
        ok |-> TRUE]
  ELSE [obj |-> o, ok |-> FALSE]

RECURSIVE ObjectAssignFrom(_, _, _)
\* Object.assign(target, source): [[Get]] every own enumerable property of
\* source, in creation order, and [[Set]] it on target.
ObjectAssignFrom(target, source, i) ==
  IF i > Len(source.keys) THEN [obj |-> target, ok |-> TRUE]
  ELSE LET k == source.keys[i] IN
       IF ~source.desc[k].enumerable
       THEN ObjectAssignFrom(target, source, i + 1)
       ELSE LET r == OrdinarySet(target, k, Get(source, k)) IN
            IF r.ok THEN ObjectAssignFrom(r.obj, source, i + 1) ELSE r

\* An Object.assign that copies nothing.
ObjectAssignNothing(target, source) == [obj |-> target, ok |-> TRUE]

ObjectAssign(target, source) == ObjectAssignFrom(target, source, 1)

RECURSIVE AssignEntriesFrom(_, _, _)
\* for (const [key, value] of Object.entries(extensions)) extendedZ[key] = value
AssignEntriesFrom(target, entries, i) ==
  IF i > Len(entries) THEN [obj |-> target, ok |-> TRUE]
  ELSE LET r == OrdinarySet(target, entries[i].key, entries[i].value) IN
       IF r.ok THEN AssignEntriesFrom(r.obj, entries, i + 1) ELSE r

\* The loop storing a wrapper around each constructor instead of it.
AssignEntriesWrapped(target, entries) ==
  AssignEntriesFrom(target,
    [i \in DOMAIN entries |-> [key |-> entries[i].key, value |-> "wrapper"]], 1)

AssignEntries(target, entries) == AssignEntriesFrom(target, entries, 1)

\* Object.preventExtensions only: what a freeze that forgot the attributes does.
ObjectPreventExtensions(o) == [o EXCEPT !.extensible = FALSE]

\* Object.freeze(o): not extensible, every own property read-only and fixed.
ObjectFreeze(o) ==
  [o EXCEPT !.extensible = FALSE,
            !.desc = [k \in DOMAIN o.desc |->
                        [o.desc[k] EXCEPT !.writable = FALSE,
                                          !.configurable = FALSE]]]

IsFrozen(o) ==
  /\ ~o.extensible
  /\ \A k \in DOMAIN o.desc : ~o.desc[k].writable /\ ~o.desc[k].configurable

\* ------------------------------------------------------------ the module
\* A base argument is the index of a heap object; index 0 stands for null.
IsNull(z) == z = 0

NoError == [name |-> "none", from |-> "none"]
TypeErrorFrom(where) == [name |-> "TypeError", from |-> where]

\* The function object a copying createExtendZod would build: the metadata
\* is a copy of the map, not the caller's object.
createExtendZodCopy(b, ref, entries) ==
  LET fn == [proto |-> "FunctionPrototype", keys |-> <<>>, desc |-> EmptyDesc,
             extensible |-> TRUE, closure |-> ref,
             entriesAtCreate |-> entries, createExc |-> NoError]
  IN IF b = Part000
     THEN OrdinarySet(fn, OBJECT_EXTEND_FUNCTION_ENTRIES, "copy:extensions").obj
     ELSE fn

\* createExtendZod(extensions) in build b: the function object extendZod,
\* closing over the caller's map `ref` by reference; unnamed/part_000 also
\* assigns the map to extendZod[OBJECT_EXTEND_FUNCTION_ENTRIES].
\* entriesAtCreate and createExc are history: the entries the map held when
\* the function was created, and what the creation threw (no statement of it
\* can throw).
createExtendZod(b, ref, entries) ==
  LET fn == [proto |-> "FunctionPrototype", keys |-> <<>>, desc |-> EmptyDesc,
             extensible |-> TRUE, closure |-> ref,
             entriesAtCreate |-> entries, createExc |-> NoError]
  IN IF b = Part000
     THEN OrdinarySet(fn, OBJECT_EXTEND_FUNCTION_ENTRIES, ExtensionsRef).obj
     ELSE fn

\* The body of extendZod with the entries patched onto z itself as well.
extendZodInPlace(h, z, entries) ==
  IF IsNull(z)
  THEN [heap |-> h, result |-> 0, exc |-> TypeErrorFrom("Object.getPrototypeOf")]
  ELSE LET a == ObjectAssign(ObjectCreate(h[z].proto), h[z])
           e == AssignEntries(a.obj, entries)
           patched == [h EXCEPT ![z] = AssignEntries(h[z], entries).obj]
       IN [heap |-> Append(patched, ObjectFreeze(e.obj)),
           result |-> Len(h) + 1, exc |-> NoError]

\* The body of extendZod returning an earlier, equal object when there is one.
extendZodCached(h, z, entries) ==
  IF IsNull(z)
  THEN [heap |-> h, result |-> 0, exc |-> TypeErrorFrom("Object.getPrototypeOf")]
  ELSE LET a == ObjectAssign(ObjectCreate(h[z].proto), h[z])
           e == AssignEntries(a.obj, entries)
           made == ObjectFreeze(e.obj)
           same == {i \in DOMAIN h : h[i] = made}
       IN IF same # {}
          THEN [heap |-> h, result |-> CHOOSE i \in same : TRUE, exc |-> NoError]
          ELSE [heap |-> Append(h, made), result |-> Len(h) + 1, exc |-> NoError]

\* The body of extendZod copying the base after the entries.
extendZodBaseLast(h, z, entries) ==
  IF IsNull(z)
  THEN [heap |-> h, result |-> 0, exc |-> TypeErrorFrom("Object.getPrototypeOf")]
  ELSE LET e == AssignEntries(ObjectCreate(h[z].proto), entries)
           a == ObjectAssign(e.obj, h[z])
       IN [heap |-> Append(h, ObjectFreeze(a.obj)),
           result |-> Len(h) + 1, exc |-> NoError]

\* The body of extendZod taking a null base for an empty object.
extendZodNullAsEmpty(h, z, entries) ==
  LET src == IF IsNull(z) THEN ObjectCreate("null") ELSE h[z]
      a == ObjectAssign(ObjectCreate(src.proto), src)
      e == AssignEntries(a.obj, entries)
  IN [heap |-> Append(h, ObjectFreeze(e.obj)),
      result |-> Len(h) + 1, exc |-> NoError]

\* extendZod(z) on heap h, `entries` being Object.entries(extensions) at the
\* time of the call.  Object.getPrototypeOf(null) throws a TypeError; a
\* failed strict assignment would throw one too.
extendZod(h, z, entries) ==
  IF IsNull(z)
  THEN [heap |-> h, result |-> 0, exc |-> TypeErrorFrom("Object.getPrototypeOf")]
  ELSE LET extendedZ == ObjectCreate(h[z].proto)
           a == ObjectAssign(extendedZ, h[z])
           e == AssignEntries(a.obj, entries)
       IN IF ~a.ok
          THEN [heap |-> h, result |-> 0, exc |-> TypeErrorFrom("Object.assign")]
          ELSE IF ~e.ok
          THEN [heap |-> h, result |-> 0, exc |-> TypeErrorFrom("extendedZ[key] = value")]
          ELSE [heap |-> Append(h, ObjectFreeze(e.obj)),
                result |-> Len(h) + 1, exc |-> NoError]

\* ----------------------------------------------------------------- state
VARIABLES
  build,       \* which build of the module is loaded
  heap,        \* the objects: heap[1] is the caller's base, the rest are returned
  extensions,  \* the caller's extension map: its entries, in insertion order
  fns,         \* the apply functions created so far
  lastCall,    \* history: the latest call of an apply function (its base,
               \* the caller's map before and after it, the outcome)
  last,        \* outcome of the consumer's mutation attempt, when it was the last step
  mapOps,      \* number of caller mutations of the map
  base0        \* history: the base as the caller built it

vars == <<build, heap, extensions, fns, lastCall, last, mapOps, base0>>

\* The bases a caller may pass, after the declared type of z (the zod
\* namespace): prototype null (a module namespace object) or
\* Object.prototype (a plain or interop object), with own data members
\* `string` and possibly `custom`, each enumerable or hidden.
BaseProtos == {"null", "ObjectPrototype"}

BaseObject(p, str, cus) ==
  LET ks == SelectSeq(BaseKeyOrder, LAMBDA k : k = "string" \/ cus # "absent")
  IN [proto |-> p, keys |-> ks,
      desc |-> [k \in {ks[i] : i \in DOMAIN ks} |->
                  [DataDesc(BaseFn) EXCEPT
                     !.enumerable = IF k = "string" THEN str = "enumerable"
                                    ELSE cus = "enumerable"]],
      extensible |-> TRUE]

Bases ==
  {BaseObject(p, str, cus) :
     p \in BaseProtos, str \in {"enumerable", "hidden"},
     cus \in {"absent", "enumerable", "hidden"}}

Entries == [key : ExtKeys, value : ExtFns]

\* Extension maps: entries with distinct keys, in insertion order.
Maps ==
  {s \in UNION {[1..n -> Entries] : n \in 0..Cardinality(ExtKeys)} :
     \A i, j \in DOMAIN s : i # j => s[i].key # s[j].key}

MapKeys(m) == {m[i].key : i \in DOMAIN m}
MapValue(m, k) == (CHOOSE e \in {m[i] : i \in DOMAIN m} : e.key = k).value

\* No mutation attempt was the last step.
Idle == [op |-> "none", kind |-> "-", exc |-> NoError, changed |-> FALSE]

\* No apply function was called yet.
NoCall ==
  [called |-> FALSE, z |-> 0, zBefore |-> ObjectCreate("null"), ext |-> <<>>,
   extAfter |-> <<>>, atCreate |-> <<>>, heapLen |-> 0, result |-> 0, exc |-> NoError]

Init ==
  /\ build \in Builds
  /\ base0 \in Bases
  /\ heap = <<base0>>
  /\ extensions \in {m \in Maps : \A i \in DOMAIN m : m[i].value = "fnB"}
  /\ fns = <<>>
  /\ lastCall = NoCall
  /\ last = Idle
  /\ mapOps = 0

\* The map object a reference stands for: its current entries.
Deref(ref) == IF ref = ExtensionsRef THEN extensions ELSE <<>>

\* Entries computed once, when the apply function was created.
EntriesAtCreate(fn, m) == fn.entriesAtCreate

\* Object.entries(extensions) inside extendZod: the entries that the
\* closed-over map m holds when the apply function fn runs.
ObjectEntries(fn, m) == m

\* const extendZod = createExtendZod(extensions)
CreateExtendZod ==
  /\ Len(fns) < MaxFns
  /\ fns' = Append(fns, createExtendZod(build, ExtensionsRef, extensions))
  /\ last' = Idle
  /\ UNCHANGED <<build, heap, extensions, lastCall, mapOps, base0>>

\* fns[f](z), z being the base (heap[1]) or null (written 0).  The heap
\* holds 1 + (number of returned instances) objects.
Apply(f, z) ==
  /\ Len(heap) <= MaxCalls
  /\ UNCHANGED <<build, extensions, fns, mapOps, base0>>
  /\ LET entries == ObjectEntries(fns[f], Deref(fns[f].closure))
         r == extendZod(heap, z, entries)
     IN /\ heap' = r.heap
        /\ lastCall' =
             [called |-> TRUE, z |-> z,
              zBefore |-> IF IsNull(z) THEN ObjectCreate("null") ELSE heap[z],
              ext |-> extensions, extAfter |-> extensions',
              atCreate |-> fns[f].entriesAtCreate,
              heapLen |-> Len(heap), result |-> r.result, exc |-> r.exc]
        /\ last' = Idle

\* The caller adds or replaces an entry of its own map.
MapSet(k, v) ==
  /\ mapOps < MaxMapOps
  /\ IF k \in MapKeys(extensions) THEN MapValue(extensions, k) # v ELSE TRUE
  /\ extensions' =
       IF k \in MapKeys(extensions)
       THEN [i \in DOMAIN extensions |->
               IF extensions[i].key = k THEN [key |-> k, value |-> v]
               ELSE extensions[i]]
       ELSE Append(extensions, [key |-> k, value |-> v])
  /\ mapOps' = mapOps + 1
  /\ last' = Idle
  /\ UNCHANGED <<build, heap, fns, lastCall, base0>>

\* The caller removes an entry of its own map.
MapDelete(k) ==
  /\ mapOps < MaxMapOps
  /\ k \in MapKeys(extensions)
  /\ extensions' = SelectSeq(extensions, LAMBDA e : e.key # k)
  /\ mapOps' = mapOps + 1
  /\ last' = Idle
  /\ UNCHANGED <<build, heap, fns, lastCall, base0>>

\* The instances returned so far: every heap object but the base.
Returned == (DOMAIN heap) \ {1}

\* The value a consumer tries to store.
AttemptValue == "fnC"

KindOf(o, k) ==
  IF HasOwn(o, k) THEN "own"
  ELSE IF HasProperty(o, k) THEN "inherited" ELSE "new"

\* A consumer runs  extended[k] = v  in strict code.
AttemptAssign(o, k, v) ==
  /\ o \in Returned
  /\ LET r == OrdinarySet(heap[o], k, v)
     IN /\ heap' = [heap EXCEPT ![o] = r.obj]
        /\ last' = [op |-> "assign", kind |-> KindOf(heap[o], k),
                    exc |-> IF r.ok THEN NoError ELSE TypeErrorFrom("assignment"),
                    changed |-> r.obj # heap[o]]
  /\ UNCHANGED <<build, extensions, fns, lastCall, mapOps, base0>>

\* A consumer runs  delete extended[k]  in strict code.
AttemptDelete(o, k) ==
  /\ o \in Returned
  /\ LET r == OrdinaryDelete(heap[o], k)
     IN /\ heap' = [heap EXCEPT ![o] = r.obj]
        /\ last' = [op |-> "delete", kind |-> KindOf(heap[o], k),
                    exc |-> IF r.ok THEN NoError ELSE TypeErrorFrom("delete"),
                    changed |-> r.obj # heap[o]]
  /\ UNCHANGED <<build, extensions, fns, lastCall, mapOps, base0>>

\* The registrar's two operations and the caller's changes to its own map.
Next ==
  \/ CreateExtendZod
  \/ \E f \in DOMAIN fns, z \in {0, 1} : Apply(f, z)
  \/ \E k \in ExtKeys, v \in ExtFns : MapSet(k, v)
  \/ \E k \in ExtKeys : MapDelete(k)

Spec == Init /\ [][Next]_vars

\* The registrar's two operations and a consumer's attempts to change what
\* they returned; the map stays as Init drew it.
NextConsumer ==
  \/ CreateExtendZod
  \/ \E f \in DOMAIN fns, z \in {0, 1} : Apply(f, z)
  \/ \E o \in DOMAIN heap, k \in Keys : AttemptAssign(o, k, AttemptValue)
  \/ \E o \in DOMAIN heap, k \in Keys : AttemptDelete(o, k)

SpecConsumer == Init /\ [][NextConsumer]_vars

\* ---------------------------------------------------------------- claims
OwnEnumerableKeys(o) == {k \in DOMAIN o.desc : o.desc[k].enumerable}

\* The latest call returned an Extended Instance.
CallReturned == lastCall.called /\ lastCall.result # 0

\* C1: every key of the extension map read by the call is defined on the
\* returned object and reads as the very constructor stored under it.
C1_ExtensionPresence ==
  CallReturned =>
    \A i \in DOMAIN lastCall.ext :
      Get(heap[lastCall.result], lastCall.ext[i].key) = lastCall.ext[i].value

\* C1 witness: a call returned with a map of two entries, one of them under
\* "__proto__", on a base that inherits from Object.prototype.
C1_Witness ==
  /\ CallReturned
  /\ Len(lastCall.ext) = 2
  /\ lastCall.zBefore.proto = "ObjectPrototype"

\* C2: the base still has exactly the own properties (names, values,
\* attributes), prototype and extensibility the caller built it with,
\* whatever calls were made and whatever the maps held.
C2_BaseNotMutated == heap[1] = base0

\* C2 witness: two instances were returned from the base, by calls whose map
\* held a key that the base owns too.
C2_Witness ==
  /\ Len(heap) >= 3
  /\ CallReturned
  /\ MapKeys(lastCall.ext) \cap (DOMAIN base0.desc) # {}

\* C3: a consumer's attempt to reassign an own property of a returned
\* instance, to add a property the instance does not have, or to delete an
\* own property throws a TypeError, and no attempt of any kind changes the
\* instance.
C3_Immutable ==
  last.op \in {"assign", "delete"} =>
    /\ ~last.changed
    /\ (last.op = "assign" /\ last.kind \in {"own", "new"})
         => last.exc.name = "TypeError"
    /\ (last.op = "delete" /\ last.kind = "own") => last.exc.name = "TypeError"

\* C3 witness: a reassignment of an own property of a returned instance threw.
C3_Witness ==
  /\ last.op = "assign"
  /\ last.kind = "own"
  /\ last.exc.name = "TypeError"

\* C4: every own enumerable property of the base that no extension key
\* overrides reads on the returned object as the base's value.
C4_BasePreserved ==
  CallReturned =>
    \A k \in OwnEnumerableKeys(lastCall.zBefore) \ MapKeys(lastCall.ext) :
      Get(heap[lastCall.result], k) = lastCall.zBefore.desc[k].value

\* C4 witness: a call with a non-empty map returned, and the base has an
\* own enumerable property that no extension key overrides.
C4_Witness ==
  /\ CallReturned
  /\ lastCall.ext # <<>>
  /\ OwnEnumerableKeys(lastCall.zBefore) \ MapKeys(lastCall.ext) # {}

\* C5: the returned object's prototype is the base's prototype, whatever the
\* keys of the extension map.
C5_PrototypePreserved ==
  CallReturned => heap[lastCall.result].proto = lastCall.zBefore.proto

\* C6: for an extension key that the base owns too, the returned object
\* reads the extension's constructor and not the base's value, the call
\* raises nothing, and the base keeps its value.
C6_OverwriteOnCollision ==
  CallReturned =>
    \A k \in MapKeys(lastCall.ext) \cap (DOMAIN lastCall.zBefore.desc) :
      /\ Get(heap[lastCall.result], k) = MapValue(lastCall.ext, k)
      /\ Get(heap[lastCall.result], k) # lastCall.zBefore.desc[k].value
      /\ lastCall.exc = NoError
      /\ heap[lastCall.z].desc[k].value = lastCall.zBefore.desc[k].value

\* C6 witness: a call returned whose map held "custom" while the base owned
\* an enumerable "custom" of its own.
C6_Witness ==
  /\ CallReturned
  /\ "custom" \in MapKeys(lastCall.ext) \cap OwnEnumerableKeys(lastCall.zBefore)

\* C7 as claimed: every apply function owns the reserved key, its value is
\* the caller's map itself, and the property is not enumerable.
C7_MetadataNonEnumerable ==
  \A i \in DOMAIN fns :
    /\ HasOwn(fns[i], OBJECT_EXTEND_FUNCTION_ENTRIES)
    /\ fns[i].desc[OBJECT_EXTEND_FUNCTION_ENTRIES].value = ExtensionsRef
    /\ ~fns[i].desc[OBJECT_EXTEND_FUNCTION_ENTRIES].enumerable

\* C7 as amended: in the build that attaches it (unnamed/part_000) every
\* apply function owns the reserved key as its only own property, the value
\* is the caller's map itself (so it reads as the map's current entries),
\* and the property is an ordinary enumerable, writable, configurable one;
\* in src/index.ts the apply function has no such property.
C7_MetadataEnumerable ==
  \A i \in DOMAIN fns :
    IF build = Part000
    THEN /\ fns[i].keys = <<OBJECT_EXTEND_FUNCTION_ENTRIES>>
         /\ fns[i].desc[OBJECT_EXTEND_FUNCTION_ENTRIES]
              = DataDesc(ExtensionsRef)
         /\ Deref(fns[i].desc[OBJECT_EXTEND_FUNCTION_ENTRIES].value) = extensions
    ELSE ~HasOwn(fns[i], OBJECT_EXTEND_FUNCTION_ENTRIES)

\* C7 witness: an apply function of the attaching build exists and the
\* caller's map holds entries.
C7_Witness ==
  /\ build = Part000
  /\ fns # <<>>
  /\ extensions # <<>>

\* C8: the object a call returns did not exist before the call (so it is
\* neither the base nor an earlier result), and every returned object is
\* frozen.
C8_FreshAndFrozen ==
  /\ CallReturned =>
       /\ lastCall.result # lastCall.z
       /\ lastCall.result > lastCall.heapLen
  /\ \A o \in Returned : IsFrozen(heap[o])

\* C8 witness: two calls with the same base and the same entries returned
\* two objects with equal contents.
C8_Witness ==
  /\ Len(heap) >= 3
  /\ heap[2] = heap[3]

\* C9: the returned object carries exactly the pairs the map held when the
\* call was made (each reads as its constructor, and no extension key
\* outside the map is on the object unless copied from the base), and the
\* call left the map as it was.
C9_ReadAtApplyTime ==
  CallReturned =>
    /\ \A i \in DOMAIN lastCall.ext :
         Get(heap[lastCall.result], lastCall.ext[i].key) = lastCall.ext[i].value
    /\ \A k \in ExtKeys \ MapKeys(lastCall.ext) :
         HasOwn(heap[lastCall.result], k) => k \in OwnEnumerableKeys(lastCall.zBefore)
    /\ lastCall.extAfter = lastCall.ext

\* C9 witness: a call returned whose apply function was created when the
\* map held other entries than at the call, among them a key since removed.
C9_Witness ==
  /\ CallReturned
  /\ lastCall.atCreate # lastCall.ext
  /\ MapKeys(lastCall.atCreate) \ MapKeys(lastCall.ext) # {}

\* C10 as claimed: a call with a null base is rejected by an argument check
\* of extendZod itself, returns nothing, and creation never throws.
C10_NullBaseInvalidArgument ==
  /\ (lastCall.called /\ IsNull(lastCall.z)) =>
       /\ lastCall.exc.from = "extendZod"
       /\ lastCall.result = 0
  /\ \A i \in DOMAIN fns : fns[i].createExc = NoError

\* C10 as amended: a call with a null base throws the TypeError that
\* Object.getPrototypeOf raises, returns nothing and allocates nothing, and
\* creation never throws.
C10_NullBaseTypeError ==
  /\ (lastCall.called /\ IsNull(lastCall.z)) =>
       /\ lastCall.exc = TypeErrorFrom("Object.getPrototypeOf")
       /\ lastCall.result = 0
  /\ \A i \in DOMAIN fns : fns[i].createExc = NoError

\* C10 witness: an apply function was called with null.
C10_Witness == lastCall.called /\ IsNull(lastCall.z)

====
